---- MODULE Spec2Model ----
(***************************************************************************)
(* A model of src/server.js: the Gussy contact server.  One Express app    *)
(* with a rate limiter on the /contact path, a JSON body parser with a     *)
(* 10kb limit, an express-validator chain over four fields, a handler that *)
(* sends one mail through a nodemailer transport, a health route and a     *)
(* fallback error handler.                                                 *)
(*                                                                         *)
(* Strings are kept run-length encoded: a text is a sequence of runs       *)
(* [c |-> class, n |-> count] over the character classes "ws" (white       *)
(* space), "ch" (an ordinary character), "lt" (a character escape()        *)
(* rewrites, such as <) and "ent" (the characters of an HTML entity).      *)
(* An email address is a sequence of one-character strings.                *)
(***************************************************************************)
EXTENDS Integers, Sequences, FiniteSets, Bags, TLC

VARIABLES form, hits, seen, passed, inflight, last

vars == <<form, hits, seen, passed, inflight, last>>

(***************************************************************************)
(* Program constants.                                                      *)
(***************************************************************************)
max == 100

NameMin == 2

NameMax == 100

SubjectMax == 200

MessageMax == 2000

LimitBytes == 10240

Clients == {"c1", "c2"}

Fields == <<"name", "email", "subject", "message">>

TooManyRequests == "Too many requests. Please try again later."

SuccessMessage == "Your message has been sent successfully!"

SendFailedError == "Message failed to send. Please try again later."

InternalServerError == "Internal Server Error"

Recipient == "saadnadeem962@gmail.com"

(***************************************************************************)
(* Bounds of the model.                                                    *)
(***************************************************************************)
\* requests that may be open (admitted and not yet answered) at once
MaxInFlight == 2

\* requests per window each client sends under Spec
Load == 2

\* requests per window the second client sends under SpecBurst
OtherLoad == 2

\* requests the first client sends beyond the ceiling under SpecBurst
Over == 2

(***************************************************************************)
(* JavaScript values of a body field: a string, undefined (the key is      *)
(* absent from the body) or false (what normalizeEmail returns for an      *)
(* address it cannot normalise).                                           *)
(***************************************************************************)
Str(s) == [t |-> "string", s |-> s]

Undefined == [t |-> "undefined", s |-> <<>>]

False == [t |-> "boolean", s |-> <<>>]

\* express-validator's toString: undefined and null become the empty string
toString(v) == IF v.t = "string" THEN v.s ELSE <<>>

(***************************************************************************)
(* Texts (run-length encoded) and the sanitizers and validators of the     *)
(* chains of name, subject and message.                                    *)
(***************************************************************************)
Run(c, n) == [c |-> c, n |-> n]

\* l white-space characters, n ordinary ones, t white-space ones
Txt(l, n, t) ==
    (IF l > 0 THEN <<Run("ws", l)>> ELSE <<>>)
        \o (IF n > 0 THEN <<Run("ch", n)>> ELSE <<>>)
        \o (IF t > 0 THEN <<Run("ws", t)>> ELSE <<>>)

RECURSIVE length(_)
length(s) == IF s = <<>> THEN 0 ELSE Head(s).n + length(Tail(s))

RECURSIVE ltrim(_)
ltrim(s) == IF s # <<>> /\ Head(s).c = "ws" THEN ltrim(Tail(s)) ELSE s

RECURSIVE rtrim(_)
rtrim(s) ==
    IF s # <<>> /\ s[Len(s)].c = "ws" THEN rtrim(SubSeq(s, 1, Len(s) - 1)) ELSE s

trim(s) == rtrim(ltrim(s))

isLength(s, lo, hi) == length(s) >= lo /\ length(s) <= hi

\* < becomes &lt; and so on: one character becomes the four of its entity
escape(s) ==
    [i \in 1..Len(s) |-> IF s[i].c = "lt" THEN Run("ent", 4 * s[i].n) ELSE s[i]]

(***************************************************************************)
(* Email addresses: isEmail and normalizeEmail of validator.js with their  *)
(* default options, as body('email').isEmail().normalizeEmail() runs them. *)
(***************************************************************************)
Letters == {"a", "b", "c", "e", "g", "i", "l", "m", "o", "p", "x"}

Capitals == {"A", "B", "C", "E", "G", "I", "L", "M", "O", "P", "X"}

toLowerChar(ch) ==
    CASE ch = "A" -> "a" [] ch = "B" -> "b" [] ch = "C" -> "c" [] ch = "E" -> "e"
      [] ch = "G" -> "g" [] ch = "I" -> "i" [] ch = "L" -> "l" [] ch = "M" -> "m"
      [] ch = "O" -> "o" [] ch = "P" -> "p" [] ch = "X" -> "x" [] OTHER -> ch

toLowerCase(s) == [i \in 1..Len(s) |-> toLowerChar(s[i])]

\* the positions of character ch in s
Positions(s, ch) == {i \in 1..Len(s) : s[i] = ch}

Maximum(S) == CHOOSE x \in S : \A y \in S : y <= x

Minimum(S) == CHOOSE x \in S : \A y \in S : x <= y

\* s without the characters ch
RECURSIVE Without(_, _)
Without(s, ch) ==
    IF s = <<>> THEN <<>>
    ELSE IF Head(s) = ch THEN Without(Tail(s), ch)
    ELSE <<Head(s)>> \o Without(Tail(s), ch)

\* the parts of s between the characters ch, as s.split(ch) gives them
RECURSIVE split(_, _)
split(s, ch) ==
    IF Positions(s, ch) = {} THEN <<s>>
    ELSE LET p == Minimum(Positions(s, ch))
         IN  <<SubSeq(s, 1, p - 1)>> \o split(SubSeq(s, p + 1, Len(s)), ch)

\* email.split('@'): the domain is the last part, the user all before it
domainOf(s) ==
    IF Positions(s, "@") = {} THEN s
    ELSE SubSeq(s, Maximum(Positions(s, "@")) + 1, Len(s))

userOf(s) ==
    IF Positions(s, "@") = {} THEN <<>>
    ELSE SubSeq(s, 1, Maximum(Positions(s, "@")) - 1)

\* the characters of s that are not in the set ok
Foreign(s, ok) == {j \in 1..Len(s) : s[j] \notin ok}

\* isFQDN with require_tld: at least two labels, none empty, letters only
\* (the model's addresses hold no digit and no hyphen), a tld of two or more
isFQDN(d) ==
    LET parts == split(d, ".")
    IN  /\ Len(parts) >= 2
        /\ {i \in 1..Len(parts) :
               parts[i] = <<>> \/ Foreign(parts[i], Letters \cup Capitals) # {}} = {}
        /\ Len(parts[Len(parts)]) >= 2

\* the user part is a dot-atom: no empty part, every character an atom one
isEmail(s) ==
    LET user == userOf(s)
        parts == split(user, ".")
    IN  /\ Positions(s, "@") # {}
        /\ user # <<>>
        /\ isFQDN(domainOf(s))
        /\ {i \in 1..Len(parts) :
               parts[i] = <<>>
                 \/ Foreign(parts[i], Letters \cup Capitals \cup {"+"}) # {}} = {}

Gmail == <<"g", "m", "a", "i", "l", ".", "c", "o", "m">>

GoogleMail == <<"g", "o", "o", "g", "l", "e", "m", "a", "i", "l", ".", "c", "o", "m">>

\* lowercases the domain; for gmail drops the sub-address and the dots,
\* lowercases the user and rewrites googlemail.com; otherwise lowercases the
\* user; false when a gmail user is left empty
normalizeEmail(s) ==
    LET domain == toLowerCase(domainOf(s))
        user   == userOf(s)
    IN  IF domain \in {Gmail, GoogleMail}
        THEN LET u == Without(Head(split(user, "+")), ".")
             IN  IF u = <<>> THEN False
                 ELSE Str(toLowerCase(u) \o <<"@">> \o Gmail)
        ELSE Str(toLowerCase(user) \o <<"@">> \o domain)

(***************************************************************************)
(* contactValidation: the four chains, each run whatever the others found, *)
(* and validationResult(req): the entries of the fields whose validator    *)
(* failed, in the order of the chains.                                     *)
(***************************************************************************)
\* body(field).trim().isLength({ min, max }).escape()
textChain(v, lo, hi) ==
    LET t == trim(toString(v))
    IN  [valid |-> isLength(t, lo, hi), value |-> Str(escape(t))]

\* a chain of email without its sanitizer
emailChainUnnormalized(v) ==
    LET s == toString(v)
    IN  [valid |-> isEmail(s), value |-> Str(s)]

\* body('email').isEmail().normalizeEmail()
emailChain(v) ==
    LET s == toString(v)
    IN  [valid |-> isEmail(s), value |-> normalizeEmail(s)]

contactValidation(body) ==
    [name    |-> textChain(body.name, NameMin, NameMax),
     email   |-> emailChain(body.email),
     subject |-> textChain(body.subject, 0, SubjectMax),
     message |-> textChain(body.message, 0, MessageMax)]

ErrorEntry(f) == [location |-> "body", path |-> f, msg |-> "Invalid value"]

RECURSIVE errorsFrom(_, _)
errorsFrom(run, i) ==
    IF i > Len(Fields) THEN <<>>
    ELSE (IF run[Fields[i]].valid THEN <<>> ELSE <<ErrorEntry(Fields[i])>>)
            \o errorsFrom(run, i + 1)

\* a result that keeps the first failure only
validationResultFirstOnly(run) ==
    IF errorsFrom(run, 1) = <<>> THEN <<>> ELSE <<Head(errorsFrom(run, 1))>>

validationResult(run) == errorsFrom(run, 1)

\* req.body once the sanitizers have written their values back
sanitized(run) == [f \in {"name", "email", "subject", "message"} |-> run[f].value]

(***************************************************************************)
(* express.json({ limit: '10kb' }): the body is refused when its length    *)
(* is above the limit, before it is read; a body that is read and is not   *)
(* JSON is refused by the parser.                                          *)
(***************************************************************************)
\* the bytes of the body: those of the four values and all the others
bytes(f) ==
    length(toString(f.name)) + Len(toString(f.email))
        + length(toString(f.subject)) + length(toString(f.message)) + f.extra

jsonParser(f) ==
    IF bytes(f) > LimitBytes THEN "entity.too.large"
    ELSE IF ~f.json THEN "entity.parse.failed"
    ELSE "parsed"

(***************************************************************************)
(* The rate limiter: rateLimit({ windowMs, max, message }) with its        *)
(* defaults, the in-memory store keyed by the client's address.            *)
(***************************************************************************)
keyGenerator(c) == c

\* a store that reads the count, yields, and writes it back: the increment of
\* a request is lost when another request of the client is open
StoreIncrementRacy(h, c) ==
    [h EXCEPT ![keyGenerator(c)] =
        IF \E r \in BagToSet(inflight) : r.client = c THEN @ ELSE @ + 1]

\* MemoryStore.increment: one synchronous step of the event loop
StoreIncrement(h, c) == [h EXCEPT ![keyGenerator(c)] = @ + 1]

\* a limiter that lets one request more through
OverLimitByOne(n) == n > max + 1

\* the limiter answers 429 when the client's total is above max
OverLimit(n) == n > max

\* skipFailedRequests on: a response of 400 or more gives its unit back
settleSkipFailed(h, c, status) ==
    IF status >= 400 /\ h[keyGenerator(c)] > 0
    THEN [h EXCEPT ![keyGenerator(c)] = @ - 1]
    ELSE h

\* skipFailedRequests and skipSuccessfulRequests are off: a response gives
\* nothing back to the client's count
settle(h, c, status) == h

(***************************************************************************)
(* Responses and mails.                                                    *)
(***************************************************************************)
Body(keys, text, success, message, error, errors) ==
    [keys |-> keys, text |-> text, success |-> success, message |-> message,
     error |-> error, errors |-> errors]

RateLimitBody == Body({}, TooManyRequests, FALSE, "", "", <<>>)

ValidationBody(errors) == Body({"errors"}, "", FALSE, "", "", errors)

SuccessBody == Body({"success", "message"}, "", TRUE, SuccessMessage, "", <<>>)

\* a catch block that reports what it caught
SendFailedBodyLeaking(cause) == [keys |-> {"success", "error"}, text |-> "",
    success |-> FALSE, message |-> "", error |-> cause, errors |-> <<>>]

\* the catch block: the same body whatever was caught
SendFailedBody(cause) == Body({"success", "error"}, "", FALSE, "", SendFailedError, <<>>)

\* the fallback handler: the same body whatever the error
FallbackBody(err) == Body({"success", "error"}, "", FALSE, "", InternalServerError, <<>>)

HealthBody == Body({"status", "service", "timestamp"}, "", FALSE, "", "", <<>>)

NotFoundBody == Body({}, "Cannot GET /contact", FALSE, "", "", <<>>)

NoBody == Body({}, "", FALSE, "", "", <<>>)

\* the argument of transporter.sendMail
Mail(b) ==
    [to |-> Recipient, replyTo |-> b.email, subject |-> b.subject,
     html |-> [name |-> b.name, email |-> b.email, subject |-> b.subject,
               message |-> b.message]]

NoMail == Mail([name |-> Undefined, email |-> Undefined, subject |-> Undefined,
                message |-> Undefined])

\* a response as the client gets it (client, method, path, status, body),
\* with what the server did for it: the middleware that ran (stages), the
\* calls of sendMail (sends) and the mail, how the transport settled it
\* (transport) and what console.error printed (logged)
Response(c, method, path, status, body, stages, sends, mail, transport, logged) ==
    [client |-> c, method |-> method, path |-> path, status |-> status,
     body |-> body, stages |-> stages, sends |-> sends, mail |-> mail,
     transport |-> transport, logged |-> logged]

NoResponse == Response("", "", "", 0, NoBody, <<>>, 0, NoMail, "none", "")

\* what the transport may reject a send with
Causes == {"EAUTH", "ESOCKET"}

\* an open request: admitted by the limiter with its body unread ("body"),
\* or suspended at await transporter.sendMail ("sending")
Request(c, stage, mail, sends) ==
    [client |-> c, stage |-> stage, mail |-> mail, sends |-> sends]

Before == <<"helmet", "limiter", "cors">>

(***************************************************************************)
(* The submissions the clients send.  A form is the body of a request: the *)
(* four values, whether the text is JSON, and the bytes that are not those *)
(* of the four values (keys, quotes, other keys).                          *)
(***************************************************************************)
Form(name, email, subject, message, extra, json) ==
    [name |-> name, email |-> email, subject |-> subject, message |-> message,
     extra |-> extra, json |-> json]

Names ==
    {Undefined,
     Str(Txt(0, NameMin - 1, 0)), Str(Txt(1, NameMin - 1, 1)),
     Str(Txt(0, NameMin, 0)),
     Str(Txt(0, NameMax, 0)), Str(Txt(1, NameMax, 1)),
     Str(Txt(0, NameMax + 1, 0)),
     Str(<<Run("lt", 1), Run("ch", NameMax - 1)>>)}

Emails ==
    {Undefined,
     Str(<<"a", "@", "e", "x", "a", "m", "p", "l", "e", ".", "c", "o", "m">>),
     Str(<<"B", ".", "a", "@", "E", "x", "a", "m", "p", "l", "e", ".", "C", "O", "M">>),
     Str(<<"a", ".", "B", "+", "x", "@", "G", "o", "o", "g", "l", "e", "M", "a", "i", "l", ".", "c", "o", "m">>),
     Str(<<"+", "a", "@", "g", "m", "a", "i", "l", ".", "c", "o", "m">>),
     Str(<<"a", "@", "e", "x", "a", "m", "p", "l", "e">>),
     Str(<<"e", "x", "a", "m", "p", "l", "e", ".", "c", "o", "m">>),
     Str(<<".", "a", "@", "e", "x", "a", "m", "p", "l", "e", ".", "c", "o", "m">>),
     Str(<<" ", "a", "@", "e", "x", "a", "m", "p", "l", "e", ".", "c", "o", "m">>)}

Subjects ==
    {Undefined, Str(Txt(0, SubjectMax, 0)), Str(Txt(1, SubjectMax + 1, 0))}

Messages ==
    {Str(Txt(0, 1, 0)), Str(Txt(0, MessageMax, 1)), Str(Txt(0, MessageMax + 1, 0))}

\* every name with every email, and every subject with every message beside
\* a good or bad name and a good or bad email
FieldForms ==
    {Form(n, e, Str(Txt(0, SubjectMax, 0)), Str(Txt(0, 1, 0)), 48, TRUE) :
        n \in Names, e \in Emails}
    \cup
    {Form(n, e, s, m, 48, TRUE) :
        n \in {Str(Txt(0, NameMin, 0)), Str(Txt(0, NameMin - 1, 0))},
        e \in {Str(<<"a", "@", "e", "x", "a", "m", "p", "l", "e", ".", "c", "o", "m">>), Undefined},
        s \in Subjects, m \in Messages}

ValidForm ==
    Form(Str(Txt(0, NameMin, 0)), Str(<<"B", ".", "a", "@", "E", "x", "a", "m", "p", "l", "e", ".", "C", "O", "M">>),
         Str(Txt(0, SubjectMax, 0)), Str(Txt(0, 1, 0)), 48, TRUE)

ShortNameForm == [ValidForm EXCEPT !.name = Str(Txt(0, NameMin - 1, 0))]

\* the valid form padded to exactly n bytes
Padded(n) == [ValidForm EXCEPT !.extra = n - (bytes(ValidForm) - 48)]

SizeForms ==
    {Padded(LimitBytes), Padded(LimitBytes + 1),
     [Padded(LimitBytes + 1) EXCEPT !.name = Str(Txt(0, NameMin - 1, 0))],
     [Padded(LimitBytes + 1) EXCEPT !.json = FALSE],
     [ValidForm EXCEPT !.json = FALSE]}

Forms == FieldForms \cup SizeForms

BurstForms == {ValidForm, ShortNameForm, Padded(LimitBytes + 1)}

(***************************************************************************)
(* The handler's own steps.                                                *)
(***************************************************************************)
\* a handler that rejects only when every field failed
rejectsOnlyAllBad(errors) == Len(errors) = Len(Fields)

\* if (!errors.isEmpty()) return res.status(400)...
rejects(errors) == errors # <<>>

\* a handler that calls sendMail twice
sendMailTwice(r, mail) == Request(r.client, "sending", mail, r.sends + 2)

\* await transporter.sendMail({...}): one call, the handler suspended on it
sendMail(r, mail) == Request(r.client, "sending", mail, r.sends + 1)

\* a handler that does not wait for the send to settle: it answers 200
respondWithoutAwait(r, settled, cause) ==
    Response(r.client, "POST", "/contact", 200, SuccessBody,
             Before \o <<"json", "validation", "handler">>,
             r.sends, r.mail, settled, cause)

\* the response after the await: 200 when sendMail resolved, the catch
\* block's 500 when it threw
respond(r, settled, cause) ==
    IF settled = "accepted"
    THEN Response(r.client, "POST", "/contact", 200, SuccessBody,
                  Before \o <<"json", "validation", "handler">>,
                  r.sends, r.mail, "accepted", "")
    ELSE Response(r.client, "POST", "/contact", 500, SendFailedBody(cause),
                  Before \o <<"json", "validation", "handler">>,
                  r.sends, r.mail, "rejected", cause)

Open(stage) == {r \in BagToSet(inflight) : r.stage = stage}

Add(r) == inflight (+) SetToBag({r})

Remove(r) == inflight (-) SetToBag({r})

(***************************************************************************)
(* The initial state: the server has started, no request has arrived.      *)
(***************************************************************************)
Start ==
    /\ hits = [c \in Clients |-> 0]
    /\ seen = [c \in Clients |-> 0]
    /\ passed = [c \in Clients |-> 0]
    /\ inflight = EmptyBag
    /\ last = NoResponse

Init == form \in Forms /\ Start

InitBurst == form \in BurstForms /\ Start

(***************************************************************************)
(* The actions.                                                            *)
(***************************************************************************)
\* a request to the /contact path reaches app.use('/contact', limiter): the
\* store counts it, and the limiter answers 429 or calls next()
Limiter(c, admitted, refused) ==
    LET h == StoreIncrement(hits, c)
    IN  /\ seen' = [seen EXCEPT ![c] = @ + 1]
        /\ IF OverLimit(h[keyGenerator(c)])
           THEN /\ hits' = settle(h, c, 429)
                /\ passed' = passed
                /\ refused
           ELSE /\ hits' = h
                /\ passed' = [passed EXCEPT ![c] = @ + 1]
                /\ admitted

\* POST /contact arrives from client c
Receive(c) ==
    /\ BagCardinality(inflight) < MaxInFlight \/ OverLimit(hits[keyGenerator(c)] + 1)
    /\ Limiter(c,
          /\ inflight' = Add(Request(c, "body", NoMail, 0))
          /\ last' = last,
          /\ inflight' = inflight
          /\ last' = Response(c, "POST", "/contact", 429, RateLimitBody,
                              <<"helmet", "limiter">>, 0, NoMail, "none", ""))
    /\ UNCHANGED form

\* any other request to the /contact path: the limiter counts it, no route
\* matches it
Probe(c) ==
    /\ Limiter(c,
          last' = Response(c, "GET", "/contact", 404, NotFoundBody,
                           Before \o <<"notFound">>, 0, NoMail, "none", ""),
          last' = Response(c, "GET", "/contact", 429, RateLimitBody,
                           <<"helmet", "limiter">>, 0, NoMail, "none", ""))
    /\ UNCHANGED <<form, inflight>>

\* the body of an admitted request is read and express.json refuses it: the
\* error goes to the fallback handler
Refuse(r) ==
    /\ r \in Open("body")
    /\ jsonParser(form) # "parsed"
    /\ last' = Response(r.client, "POST", "/contact", 500,
                        FallbackBody(jsonParser(form)),
                        Before \o <<"json", "errorHandler">>,
                        r.sends, r.mail, "none", jsonParser(form))
    /\ inflight' = Remove(r)
    /\ hits' = settle(hits, r.client, 500)
    /\ UNCHANGED <<form, seen, passed>>

\* the body is parsed, the chains run, the handler finds errors
Reject(r) ==
    /\ r \in Open("body")
    /\ jsonParser(form) = "parsed"
    /\ rejects(validationResult(contactValidation(form)))
    /\ last' = Response(r.client, "POST", "/contact", 400,
                        ValidationBody(validationResult(contactValidation(form))),
                        Before \o <<"json", "validation", "handler">>,
                        r.sends, r.mail, "none", "")
    /\ inflight' = Remove(r)
    /\ hits' = settle(hits, r.client, 400)
    /\ UNCHANGED <<form, seen, passed>>

\* the body is parsed, the chains run, the handler finds no error and runs
\* up to its await
Send(r) ==
    /\ r \in Open("body")
    /\ jsonParser(form) = "parsed"
    /\ ~rejects(validationResult(contactValidation(form)))
    /\ inflight' = Add(sendMail(r, Mail(sanitized(contactValidation(form))))) (-) SetToBag({r})
    /\ UNCHANGED <<form, hits, seen, passed, last>>

\* express.json, the validation chains and the handler of POST /contact
Process(r) == Refuse(r) \/ Reject(r) \/ Send(r)

\* the transport settles the send of a suspended handler
Settle(r, settled, cause) ==
    /\ r \in Open("sending")
    /\ LET response == respond(r, settled, cause)
       IN  /\ last' = response
           /\ hits' = settle(hits, r.client, response.status)
    /\ inflight' = Remove(r)
    /\ UNCHANGED <<form, seen, passed>>

SendOk(r) == Settle(r, "accepted", "")

SendFail(r, cause) == Settle(r, "rejected", cause)

\* GET /
Health(c) ==
    /\ last' = Response(c, "GET", "/", 200, HealthBody,
                        <<"helmet", "cors", "health">>, 0, NoMail, "none", "")
    /\ UNCHANGED <<form, hits, seen, passed, inflight>>

\* the window of the clients of K ends: their counts start again
WindowExpire(K) ==
    /\ \E c \in K : seen[c] > 0
    /\ hits' = [c \in Clients |-> IF c \in K THEN 0 ELSE hits[c]]
    /\ seen' = [c \in Clients |-> IF c \in K THEN 0 ELSE seen[c]]
    /\ passed' = [c \in Clients |-> IF c \in K THEN 0 ELSE passed[c]]
    /\ UNCHANGED <<form, inflight, last>>

Requests == UNION {Open(stage) : stage \in {"body", "sending"}}

\* what the server does once requests are in
Serve ==
    \/ \E r \in Requests : Process(r)
    \/ \E r \in Requests : SendOk(r)
    \/ \E r \in Requests, cause \in Causes : SendFail(r, cause)
    \/ \E K \in SUBSET Clients : WindowExpire(K)

\* every client sends at most Load requests to /contact per window
Next ==
    \/ \E c \in Clients : seen[c] < Load /\ Receive(c)
    \/ \E c \in Clients : seen[c] < Load /\ Probe(c)
    \/ \E c \in Clients : Health(c)
    \/ Serve

Spec == Init /\ [][Next]_vars

\* the first client sends up to Over requests beyond the ceiling, the second
\* at most OtherLoad
Burst(c) == IF c = "c1" THEN max + Over ELSE OtherLoad

NextBurst ==
    \/ \E c \in Clients : seen[c] < Burst(c) /\ Receive(c)
    \/ \E c \in Clients : seen[c] < Burst(c) /\ Probe(c)
    \/ \E c \in Clients : Health(c)
    \/ Serve

SpecBurst == InitBurst /\ [][NextBurst]_vars

\* the transport settles every send: nodemailer's promise resolves or rejects
Settled ==
    \E r \in Requests : SendOk(r) \/ \E cause \in Causes : SendFail(r, cause)

SpecLive == Spec /\ WF_vars(Settled)

(***************************************************************************)
(* What the claims speak of, stated on the submission itself and not by    *)
(* the chains: the rule of each field, and the canonical form of the       *)
(* addresses the forms hold.                                               *)
(***************************************************************************)
RECURSIVE RunSum(_, _, _)
RunSum(s, i, j) == IF i > j THEN 0 ELSE s[i].n + RunSum(s, i + 1, j)

\* the characters from the first to the last that is not white space
CoreLength(v) ==
    LET s == IF v.t = "string" THEN v.s ELSE <<>>
        solid == {i \in 1..Len(s) : s[i].c # "ws"}
    IN  IF solid = {} THEN 0 ELSE RunSum(s, Minimum(solid), Maximum(solid))

\* the addresses of the forms that are valid, each with its canonical form
CanonicalOf ==
    {<<Str(<<"a", "@", "e", "x", "a", "m", "p", "l", "e", ".", "c", "o", "m">>), Str(<<"a", "@", "e", "x", "a", "m", "p", "l", "e", ".", "c", "o", "m">>)>>,
     <<Str(<<"B", ".", "a", "@", "E", "x", "a", "m", "p", "l", "e", ".", "C", "O", "M">>), Str(<<"b", ".", "a", "@", "e", "x", "a", "m", "p", "l", "e", ".", "c", "o", "m">>)>>,
     <<Str(<<"a", ".", "B", "+", "x", "@", "G", "o", "o", "g", "l", "e", "M", "a", "i", "l", ".", "c", "o", "m">>), Str(<<"a", "b", "@", "g", "m", "a", "i", "l", ".", "c", "o", "m">>)>>,
     <<Str(<<"+", "a", "@", "g", "m", "a", "i", "l", ".", "c", "o", "m">>), False>>}

GoodEmail(v) == \E p \in CanonicalOf : p[1] = v

Canonical(v) == (CHOOSE p \in CanonicalOf : p[1] = v)[2]

Violations(f) ==
    {x \in {"name"} : CoreLength(f.name) < 2 \/ CoreLength(f.name) > 100}
    \cup {x \in {"email"} : ~GoodEmail(f.email)}
    \cup {x \in {"subject"} : CoreLength(f.subject) > 200}
    \cup {x \in {"message"} : CoreLength(f.message) > 2000}

\* the body is JSON of at most 10240 bytes: the parser lets it through
Admissible(f) == f.json /\ bytes(f) <= 10240

\* the last response answers a POST /contact the limiter let through
Answered == last.method = "POST" /\ last.path = "/contact" /\ last.status # 429

Paths(errors) == {errors[i].path : i \in 1..Len(errors)}

Ran(stage) == \E i \in 1..Len(last.stages) : last.stages[i] = stage

(***************************************************************************)
(* C1: a POST /contact that passed admission with at least one field       *)
(* violating its rule is answered 400 with a list of field errors, and no  *)
(* send is attempted for it: while such a submission is the one being      *)
(* sent, no request ever reaches sendMail.                                 *)
(***************************************************************************)
C1_RejectedWholesale ==
    (Admissible(form) /\ Violations(form) # {}) =>
        /\ \A r \in Requests : r.stage = "body" /\ r.sends = 0 /\ r.mail = NoMail
        /\ Answered =>
              /\ last.status = 400
              /\ last.body.keys = {"errors"}
              /\ last.body.errors # <<>>
              /\ last.sends = 0
              /\ last.mail = NoMail
              /\ last.transport = "none"

\* a submission with three good fields and one bad one was answered 400
C1_Witness ==
    /\ Answered /\ last.status = 400
    /\ Admissible(form) /\ Cardinality(Violations(form)) = 1

C3_GenericFailure ==
    last.transport = "rejected" =>
        /\ last.status = 500
        /\ last.body = Body({"success", "error"}, "", FALSE, "",
                            "Message failed to send. Please try again later.", <<>>)
        /\ last.logged \in Causes
        /\ last.logged \notin {last.body.text, last.body.message, last.body.error}

C3_Witness ==
    /\ Answered /\ last.transport = "rejected" /\ last.logged = "ESOCKET"
    /\ last.status = 500

(***************************************************************************)
(* C5: a POST /contact whose body is larger than 10KB is rejected before   *)
(* the validator runs and before any send, without a field-error list, by  *)
(* a response whose status is its own: not 400, not 200 and not the 500 of *)
(* a failed send.                                                          *)
(***************************************************************************)
C5_DistinctSizeRejection ==
    (Answered /\ bytes(form) > 10240) =>
        /\ ~Ran("validation")
        /\ last.sends = 0
        /\ "errors" \notin last.body.keys
        /\ last.status \notin {400, 200, 500}

\* every request that may be open is open and suspended at its send
Saturated ==
    /\ BagCardinality(inflight) >= MaxInFlight
    /\ Open("body") = {}

\* the outcome of an answered POST /contact that passed admission
Outcome ==
    (Answered /\ Admissible(form)) =>
        /\ last.status \in {400, 200, 500}
        /\ last.status = 400 =>
              /\ last.body.keys = {"errors"} /\ last.body.errors # <<>>
              /\ last.sends = 0 /\ last.transport = "none"
        /\ last.status = 200 =>
              /\ last.transport = "accepted" /\ last.sends = 1
              /\ last.body.success /\ last.body.keys = {"success", "message"}
        /\ last.status = 500 =>
              /\ last.transport = "rejected" /\ last.sends = 1
              /\ ~last.body.success
              /\ last.body.error = "Message failed to send. Please try again later."

C8_ErrorsNameViolations ==
    (Answered /\ Admissible(form)) =>
        /\ last.status = 400 <=> Violations(form) # {}
        /\ last.status = 400 =>
              /\ Paths(last.body.errors) = Violations(form)
              /\ Len(last.body.errors) = Cardinality(Violations(form))
              /\ \A i, j \in 1..Len(last.body.errors) :
                    i < j => \E k, l \in 1..Len(Fields) :
                                /\ k < l
                                /\ Fields[k] = last.body.errors[i].path
                                /\ Fields[l] = last.body.errors[j].path
        /\ ("name" \in Paths(last.body.errors))
              <=> (CoreLength(form.name) \notin 2..100)

\* all four fields violate their rule and all four are reported at once
C8_Witness ==
    /\ Answered /\ last.status = 400
    /\ Len(last.body.errors) = 4
    /\ Violations(form) = {"name", "email", "subject", "message"}

(***************************************************************************)
(* C9: no deduplication and no retry: every request that passed admission  *)
(* and validation has exactly one send attempt and every other request has *)
(* none, so the send attempts are as many as those requests, identical     *)
(* submissions are sent once each, and a failed send is not attempted      *)
(* again.                                                                  *)
(***************************************************************************)
RECURSIVE SendsOf(_)
SendsOf(S) ==
    IF S = {} THEN 0
    ELSE LET r == CHOOSE x \in S : TRUE
         IN  r.sends * CopiesIn(r, inflight) + SendsOf(S \ {r})

RECURSIVE CopiesOf(_)
CopiesOf(S) ==
    IF S = {} THEN 0
    ELSE LET r == CHOOSE x \in S : TRUE
         IN  CopiesIn(r, inflight) + CopiesOf(S \ {r})

C4_Limited ==
    [][\A c \in Clients :
          (seen'[c] = seen[c] + 1 /\ seen[c] >= 100) =>
              /\ inflight' = inflight
              /\ last'.client = c
              /\ last'.status = 429
              /\ last'.body = Body({}, "Too many requests. Please try again later.",
                                   FALSE, "", "", <<>>)
              /\ last'.stages = <<"helmet", "limiter">>
              /\ last'.sends = 0
              /\ last'.mail = NoMail]_vars

\* the 101st request of the window has been answered 429
C4_Witness ==
    /\ last.status = 429 /\ last.method = "POST" /\ last.client = "c1"
    /\ seen["c1"] = 101 /\ passed["c1"] = 100

(***************************************************************************)
(* C6: no increment of a client's counter is lost under any interleaving   *)
(* of its requests, those suspended at the send included: the counter is   *)
(* the number of requests the client made in the window, and at most 100   *)
(* of them pass the limiter.                                               *)
(***************************************************************************)
C6_NoLostIncrement ==
    \A c \in Clients :
        /\ hits[c] = seen[c]
        /\ passed[c] <= 100
        /\ passed[c] = (IF seen[c] <= 100 THEN seen[c] ELSE 100)

\* the ceiling is reached while a request of the client is suspended at its
\* send and another is still unread
C6_Witness ==
    /\ seen["c1"] > 100 /\ passed["c1"] = 100
    /\ \E r \in Open("sending") : r.client = "c1"
    /\ \E r \in Open("body") : r.client = "c1"

(***************************************************************************)
(* C10: the limiter runs first and counts every request to /contact        *)
(* whatever becomes of it: an arrival adds one to its client's count and   *)
(* to no other, no answer (400, the parser's rejection, 500, 200) gives    *)
(* anything back, a request to GET / changes no count, and a 429 comes     *)
(* from the limiter alone, never with a field-error list or from the       *)
(* parser.                                                                 *)
(***************************************************************************)
C10_CountsEveryRequest ==
    /\ [](last.status = 429 =>
            /\ last.stages = <<"helmet", "limiter">>
            /\ last.body.errors = <<>>
            /\ last.logged = "")
    /\ [](\A i \in 1..Len(last.stages) :
            last.stages[i] \in {"json", "validation", "handler", "errorHandler"} =>
                \E j \in 1..(i - 1) : last.stages[j] = "limiter")
    /\ [][\A c \in Clients :
            /\ seen'[c] = seen[c] + 1 =>
                  /\ hits'[c] = hits[c] + 1
                  /\ \A d \in Clients \ {c} : hits'[d] = hits[d]
            /\ seen'[c] = seen[c] => hits'[c] = hits[c]]_vars

\* a hundred submissions, the last one rejected by the validator, have used
\* up the quota of the first client and none of the second's
C10_Witness ==
    /\ last.status = 400 /\ last.client = "c1"
    /\ hits["c1"] = 100 /\ hits["c2"] = 0
    /\ inflight = EmptyBag

====
